---- MODULE Spec2Model ----
(***************************************************************************)
(* MilkButton: a key listener posts debounced triggers to a sender, which  *)
(* forwards an announce request to a player, which throttles and launches  *)
(* mpg123.  Three processes, modelled from player/player.py,               *)
(* sender/keylistener.py and sender/sender.py.                             *)
(*                                                                         *)
(* Wall-clock time (time.time()) is counted in whole seconds.              *)
(***************************************************************************)
EXTENDS Integers, Sequences, FiniteSets, TLC

\* ------------------------------------------------------------------------
\* Bounds of the exploration (not program constants)
\* ------------------------------------------------------------------------

\* seconds of wall-clock progress explored after the player starts
MaxTime == 2
\* a wall-clock reading at player start that lies beyond every allowed delay
LateStart == 100

\* monotonic clock ticks per second
TicksPerSecond == 2
\* last monotonic clock reading explored, in ticks
MaxMono == 6
\* key events a device holds unread
MaxQueue == 1
\* longest server address of the sender's config, in characters
MaxServerLen == 2
\* longest audio_files_to_send list of the sender's config
MaxSend == 2
\* advertisements that arrive within one discovery attempt
MaxAdverts == 2
\* last wall-clock second explored from a player start at time 0
MaxLongTime == 15

\* ------------------------------------------------------------------------
\* player.py: constants
\* ------------------------------------------------------------------------

DEFAULT_REPEATS == 2
DEFAULT_DELAY == 10
DEFAULT_VOLUME == 32768

REPEATS_MIN == 1
REPEATS_MAX == 10
DELAY_MIN == 0
DELAY_MAX == 60
VOLUME_MIN == 1
VOLUME_MAX == 500000

\* Paths are sequences of components.
BASE_DIR == <<"player">>
AUDIO_DIR == BASE_DIR \o <<"audio">>

\* The request threads of the Flask server (app.run serves threaded).
Threads == {1, 2}

\* The file lists of the announce requests that are explored: none, one and
\* two names, in both orders, with a duplicate, with an absent name first and
\* last, and names that are no plain filename.
RequestLists ==
    {<<>>, <<"bell.mp3">>, <<"bell.mp3", "horn.mp3">>, <<"horn.mp3", "bell.mp3">>,
     <<"bell.mp3", "bell.mp3">>, <<"missing.mp3">>, <<"bell.mp3", "missing.mp3">>,
     <<"missing.mp3", "bell.mp3">>, <<"../player.py">>, <<"">>}

\* The components of a name, split at "/" ("" has none).
Components(name) ==
    CASE name = "" -> <<>>
      [] name = "../player.py" -> <<"..", "player.py">>
      [] name = "sub/horn.mp3" -> <<"sub", "horn.mp3">>
      [] OTHER -> <<name>>

VARIABLES
    wall,          \* time.time(), seconds
    LAST_PLAYED,   \* player.py global: time of last playback start
    playerConfig,  \* player/config.json: [kind, data]
    patch,         \* the PATCH /api/config request that is saving
    audioFiles,    \* names of the regular files in AUDIO_DIR
    thr,           \* per request thread: the announce call it is handling
    launches       \* the two latest decoder launches, in order: [now, delay]

playerVars == <<wall, LAST_PLAYED, playerConfig, patch, audioFiles, thr, launches>>

VARIABLES
    mono,          \* time.monotonic() of the key listener, in ticks
    last,          \* keylistener.py main: time of the last forwarded trigger
    devq,          \* per input device: the events not yet read
    lpc,           \* where main's loop stands: "select", "drain" or "post"
    ready,         \* the devices select() returned that are still to be drained
    lastEvent,     \* the debounce decision on the latest key-down event and
                   \* the POST attempts made for it
    triggers,      \* the times of the two latest forwarded triggers
    triggerLog     \* what send_trigger logged last

listenerVars == <<mono, last, devq, lpc, ready, lastEvent, triggers, triggerLog>>

VARIABLES
    senderConfig,  \* sender/config.json
    snd,           \* the /send request being handled
    st             \* the sender process: run_startup's locals, then serving

senderVars == <<senderConfig, snd, st>>

vars == <<playerVars, listenerVars, senderVars>>

\* What an action of one process leaves alone: the other two processes.
notPlayer == <<listenerVars, senderVars>>
notListener == <<playerVars, senderVars>>
notSender == <<playerVars, listenerVars>>

\* ------------------------------------------------------------------------
\* player.py: pure helpers
\* ------------------------------------------------------------------------

WallTimes == (0..MaxTime) \cup (LateStart..(LateStart + MaxTime))

\* os.path.join(AUDIO_DIR, file) for a relative name.
JoinAudioDir(file) == AUDIO_DIR \o Components(file)

\* The file the operating system reaches for a path: ".." steps to the parent.
RECURSIVE Resolve(_, _)
Resolve(done, rest) ==
    IF rest = <<>> THEN done
    ELSE IF Head(rest) = ".."
         THEN Resolve(IF done = <<>> THEN <<>> ELSE SubSeq(done, 1, Len(done) - 1),
                      Tail(rest))
         ELSE Resolve(Append(done, Head(rest)), Tail(rest))

\* What exists on the player's disk: the audio files, the directories, player.py.
FsFiles(audio) == {AUDIO_DIR \o <<n>> : n \in audio} \cup {BASE_DIR \o <<"player.py">>}
FsDirs == {BASE_DIR, AUDIO_DIR}

\* os.path.exists(path)
PathExists(path, audio) == Resolve(<<>>, path) \in (FsFiles(audio) \cup FsDirs)

\* max(lo, min(hi, v))
Clamp(lo, hi, v) ==
    LET m == IF v < hi THEN v ELSE hi
    IN  IF lo > m THEN lo ELSE m

\* A JSON value under a key of config.json: the key is missing, or holds an
\* integer, a float (val is its integer part), a string that spells an
\* integer (val), another string, or null.
Missing == [type |-> "missing", val |-> 0]
IntValue(n) == [type |-> "int", val |-> n]
FloatValue(n) == [type |-> "float", val |-> n]
NumString(n) == [type |-> "numstr", val |-> n]
OtherString == [type |-> "str", val |-> 0]
Null == [type |-> "null", val |-> 0]

NoData == [repeats |-> Missing, delay |-> Missing, volume |-> Missing]

\* config.json of the player.  kind: "missing" (no file), "unreadable" (open
\* raises OSError), "empty" (no byte in it), "invalid" (no JSON), "object"
\* (a JSON object, its keys in data), "array", "number" (JSON of another shape).
NoPlayerFile == [kind |-> "missing", data |-> NoData]
TruncatedFile == [kind |-> "empty", data |-> NoData]

ConfigKeys == {"repeats", "delay", "volume"}

\* int(value) raises: ValueError for a string that spells no integer,
\* TypeError for null.
IntRaises(value) == value.type \in {"str", "null"}

DefaultPlayerConfig ==
    [repeats |-> DEFAULT_REPEATS, delay |-> DEFAULT_DELAY, volume |-> DEFAULT_VOLUME]

\* load_config() lets an exception escape: only json.JSONDecodeError and
\* OSError are caught, so the TypeError of '"repeats" in data' on a number
\* and the errors of int() are not.
load_config_raises(file) ==
    \/ file.kind = "number"
    \/ /\ file.kind = "object"
       /\ \E k \in ConfigKeys : IntRaises(file.data[k])

\* load_config(): the defaults, each key that the JSON object holds replaced
\* by int() of its value; the defaults alone when the file is missing,
\* unreadable or no JSON, or holds a JSON array.
load_config(file) ==
    [k \in ConfigKeys |->
        IF file.kind = "object" /\ file.data[k].type # "missing"
        THEN file.data[k].val
        ELSE DefaultPlayerConfig[k]]

\* save_config(config), completed: config.json holds the record.
save_config(config) ==
    [kind |-> "object", data |-> [k \in ConfigKeys |-> IntValue(config[k])]]

\* file_paths * repeats: the list concatenated with itself, repeats times.
RECURSIVE ListTimes(_, _)
ListTimes(list, n) == IF n <= 0 THEN <<>> ELSE list \o ListTimes(list, n - 1)

\* A throttle that also holds back a call arriving exactly delay after the last.
ThrottledAtBoundary(now, played, delay) == now - played <= delay

\* play_audio: if now - LAST_PLAYED < delay
Throttled(now, played, delay) == now - played < delay

\* A play list that repeats each file in place: [A,B] twice gives [A,A,B,B].
PlayListInterleaved(file_paths, repeats) ==
    [i \in 1..(Len(file_paths) * repeats) |-> file_paths[((i - 1) \div repeats) + 1]]

\* play_audio: the argument list after "mpg123 -f <volume> -q"
PlayList(file_paths, repeats) == ListTimes(file_paths, repeats)

\* A validation that looks at the first requested file only.
FirstUnknownHeadOnly(files, audio) ==
    IF files # <<>> /\ ~PathExists(JoinAudioDir(files[1]), audio) THEN 1 ELSE 0

\* announce: the first requested file that does not exist, 0 when all exist.
FirstUnknown(files, audio) ==
    LET bad == {i \in 1..Len(files) : ~PathExists(JoinAudioDir(files[i]), audio)}
    IN  IF bad = {} THEN 0 ELSE CHOOSE i \in bad : \A j \in bad : i <= j

\* The names in sorted order, as sorted() puts them.
NameOrder == <<"bell.mp3", "horn.mp3", "missing.mp3">>

\* list_files: the sorted JSON list of the regular files in AUDIO_DIR.
list_files(audio) == SelectSeq(NameOrder, LAMBDA n : n \in audio)

\* os.path.basename(name): the last component ("" has none).
Basename(name) ==
    LET c == Components(name) IN IF c = <<>> THEN "" ELSE c[Len(c)]

\* _safe_filename(name): not empty, no "..", no "/" (the explored names hold
\* no backslash and no character outside the allowed ones).
safe_filename(name) ==
    /\ name # ""
    /\ Len(Components(name)) = 1
    /\ Components(name)[1] # ".."

\* announce: file_paths, the joined path of every requested file.
FilePaths(files) == [i \in 1..Len(files) |-> JoinAudioDir(files[i])]

\* The launch history with one more launch; only the newest two are kept.
Remember(history, launch) ==
    LET all == Append(history, launch)
    IN  IF Len(all) > 2 THEN Tail(all) ELSE all

\* A request thread of the player before any request.  trigger names the
\* key press an announce request stems from (its time at the key listener),
\* 0 for a request of any other client.
IdleThread ==
    [pc |-> "idle", files |-> <<>>, file_paths |-> <<>>, cfg |-> DefaultPlayerConfig,
     now |-> 0, gate |-> 0, calls |-> 0, args |-> <<>>, launched |-> FALSE,
     stored |-> FALSE, status |-> 0, body |-> "", trigger |-> 0]

\* ------------------------------------------------------------------------
\* player.py: state machine
\* ------------------------------------------------------------------------

\* No PATCH /api/config is saving.
NoPatch == [pc |-> "idle", before |-> DefaultPlayerConfig, config |-> DefaultPlayerConfig]

PlayerStart(start) ==
    /\ wall = start
    /\ LAST_PLAYED = 0
    /\ playerConfig = NoPlayerFile
    /\ patch = NoPatch
    /\ audioFiles = {"bell.mp3", "horn.mp3"}
    /\ thr = [t \in Threads |-> IdleThread]
    /\ launches = <<>>

\* The wall clock advances.
WallTick ==
    /\ wall + 1 \in WallTimes
    /\ wall' = wall + 1
    /\ UNCHANGED <<LAST_PLAYED, playerConfig, patch, audioFiles, thr, launches>>
    /\ UNCHANGED notPlayer

\* The wall clock advances, over the longer stretch.
LongWallTick ==
    /\ wall < MaxLongTime
    /\ wall' = wall + 1
    /\ UNCHANGED <<LAST_PLAYED, playerConfig, patch, audioFiles, thr, launches>>
    /\ UNCHANGED notPlayer

\* announce(), up to the call of play_audio: load the config, read the file
\* parameters, abort(400) on none or on the first unknown one.
Announced(file, files, audio) ==
    LET config == load_config(file)
        fresh == [IdleThread EXCEPT !.files = files, !.cfg = config]
    IN  IF load_config_raises(file)
        THEN [IdleThread EXCEPT !.files = files, !.pc = "done", !.status = 500,
                                !.body = "Internal Server Error"]
        ELSE IF files = <<>>
        THEN [fresh EXCEPT !.pc = "done", !.status = 400,
                           !.body = "No file provided to play"]
        ELSE IF FirstUnknown(files, audio) # 0
        THEN [fresh EXCEPT !.pc = "done", !.status = 400,
                           !.body = "Unknown file"]
        ELSE [fresh EXCEPT !.pc = "time", !.file_paths = FilePaths(files)]

\* An announce request with the given file parameters is taken by thread t.
announce(t, files) ==
    /\ thr[t].pc \in {"idle", "done"}
    /\ thr' = [thr EXCEPT ![t] = Announced(playerConfig, files, audioFiles)]
    /\ UNCHANGED <<wall, LAST_PLAYED, playerConfig, patch, audioFiles, launches>>
    /\ UNCHANGED notPlayer

\* play_audio: now = time.time()
play_audio_time(t) ==
    /\ thr[t].pc = "time"
    /\ thr' = [thr EXCEPT ![t] = [@ EXCEPT !.pc = "check", !.now = wall]]
    /\ UNCHANGED <<wall, LAST_PLAYED, playerConfig, patch, audioFiles, launches>>
    /\ UNCHANGED notPlayer

\* play_audio: the throttle check; a throttled call returns True and
\* announce answers "OK\n".
play_audio_check(t) ==
    /\ thr[t].pc = "check"
    /\ LET r == thr[t]
           gate == r.now - LAST_PLAYED
       IN  thr' = [thr EXCEPT ![t] =
              IF Throttled(r.now, LAST_PLAYED, r.cfg.delay)
              THEN [r EXCEPT !.pc = "done", !.gate = gate,
                             !.status = 200, !.body = "OK\n"]
              ELSE [r EXCEPT !.pc = "popen", !.gate = gate]]
    /\ UNCHANGED <<wall, LAST_PLAYED, playerConfig, patch, audioFiles, launches>>
    /\ UNCHANGED notPlayer

\* A launch that records its time before Popen is called, so that a failed
\* launch leaves its time in LAST_PLAYED.
play_audio_popen_marked(t, ok) ==
    /\ thr[t].pc = "popen"
    /\ LET r == thr[t]
           called == [r EXCEPT !.calls = r.calls + 1,
                               !.args = PlayList(r.file_paths, r.cfg.repeats)]
       IN  IF ok
           THEN /\ launches' = Remember(launches, [now |-> r.now, delay |-> r.cfg.delay])
                /\ LAST_PLAYED' = LAST_PLAYED
                /\ thr' = [thr EXCEPT ![t] =
                       [called EXCEPT !.pc = "store", !.launched = TRUE]]
           ELSE /\ launches' = launches
                /\ LAST_PLAYED' = r.now
                /\ thr' = [thr EXCEPT ![t] =
                       [called EXCEPT !.pc = "done", !.status = 500,
                                      !.body = "Internal Server Error"]]
    /\ UNCHANGED <<wall, playerConfig, patch, audioFiles>>
    /\ UNCHANGED notPlayer

\* play_audio: subprocess.Popen(params).  The call either starts the decoder
\* or raises (mpg123 missing, no resources); an exception leaves play_audio
\* and announce, and Flask answers 500.
play_audio_popen(t, ok) ==
    /\ thr[t].pc = "popen"
    /\ LET r == thr[t]
           called == [r EXCEPT !.calls = r.calls + 1,
                               !.args = PlayList(r.file_paths, r.cfg.repeats)]
       IN  IF ok
           THEN /\ launches' = Remember(launches, [now |-> r.now, delay |-> r.cfg.delay])
                /\ thr' = [thr EXCEPT ![t] =
                       [called EXCEPT !.pc = "store", !.launched = TRUE]]
           ELSE /\ launches' = launches
                /\ thr' = [thr EXCEPT ![t] =
                       [called EXCEPT !.pc = "done", !.status = 500,
                                      !.body = "Internal Server Error"]]
    /\ UNCHANGED <<wall, LAST_PLAYED, playerConfig, patch, audioFiles>>
    /\ UNCHANGED notPlayer

\* A store that writes the time of the store, not the time sampled for the
\* throttle check.
play_audio_store_wall(t) ==
    /\ thr[t].pc = "store"
    /\ LAST_PLAYED' = wall
    /\ thr' = [thr EXCEPT ![t] =
           [@ EXCEPT !.pc = "done", !.stored = TRUE, !.status = 200, !.body = "OK\n"]]
    /\ UNCHANGED <<wall, playerConfig, patch, audioFiles, launches>>
    /\ UNCHANGED notPlayer

\* play_audio: LAST_PLAYED = now; return True; announce answers "OK\n".
play_audio_store(t) ==
    /\ thr[t].pc = "store"
    /\ LAST_PLAYED' = thr[t].now
    /\ thr' = [thr EXCEPT ![t] =
           [@ EXCEPT !.pc = "done", !.stored = TRUE, !.status = 200, !.body = "OK\n"]]
    /\ UNCHANGED <<wall, playerConfig, patch, audioFiles, launches>>
    /\ UNCHANGED notPlayer

\* Values a PATCH body may carry for one key: below, inside and above the range.
PatchValues(key) ==
    CASE key = "repeats" -> {3}
      [] key = "delay" -> {DELAY_MIN - 1, 2}
      [] key = "volume" -> {VOLUME_MAX + 1}

PatchKeys == {"repeats", "delay", "volume"}

\* api_patch_config: the loaded record with each key of the body clamped to
\* its range.
Patched(config, data) ==
    [repeats |-> IF "repeats" \in DOMAIN data
                 THEN Clamp(REPEATS_MIN, REPEATS_MAX, data["repeats"])
                 ELSE config.repeats,
     delay |-> IF "delay" \in DOMAIN data
               THEN Clamp(DELAY_MIN, DELAY_MAX, data["delay"])
               ELSE config.delay,
     volume |-> IF "volume" \in DOMAIN data
                THEN Clamp(VOLUME_MIN, VOLUME_MAX, data["volume"])
                ELSE config.volume]

\* PATCH /api/config handled with no other request in between: each key
\* present is clamped to its range, then saved.  (Bodies carry integers only;
\* int() of anything else raises before the save, and so does a load_config
\* that raises.)
player_api_patch_config(data) ==
    /\ patch.pc = "idle"
    /\ playerConfig' =
         IF load_config_raises(playerConfig)
         THEN playerConfig
         ELSE save_config(Patched(load_config(playerConfig), data))
    /\ UNCHANGED <<wall, LAST_PLAYED, patch, audioFiles, thr, launches>>
    /\ UNCHANGED notPlayer

\* PATCH /api/config beside other requests, up to save_config's
\* open(CONFIG_PATH, "w"), which empties config.json.  One PATCH saves at a
\* time.
save_config_open(data) ==
    /\ patch.pc = "idle"
    /\ ~load_config_raises(playerConfig)
    /\ LET config == load_config(playerConfig)
       IN  patch' = [pc |-> "dump", before |-> config, config |-> Patched(config, data)]
    /\ playerConfig' = TruncatedFile
    /\ UNCHANGED <<wall, LAST_PLAYED, audioFiles, thr, launches>>
    /\ UNCHANGED notPlayer

\* save_config: json.dump(config, f, indent=2) and the close of the file,
\* which puts the record on disk.
save_config_dump ==
    /\ patch.pc = "dump"
    /\ playerConfig' = save_config(patch.config)
    /\ patch' = NoPatch
    /\ UNCHANGED <<wall, LAST_PLAYED, audioFiles, thr, launches>>
    /\ UNCHANGED notPlayer

\* The filenames of the uploads explored: a plain name, a name with a
\* directory part, and none.
UploadNames == {"bell.mp3", "sub/horn.mp3", ""}

\* The names of the DELETE requests explored.
DeleteNames == {"bell.mp3", "horn.mp3", "../player.py"}

\* POST /api/files: the upload is saved under its base name.
api_upload_file(filename) ==
    /\ LET name == Basename(filename)
       IN  audioFiles' = IF filename # "" /\ safe_filename(name)
                         THEN audioFiles \cup {name}
                         ELSE audioFiles
    /\ UNCHANGED <<wall, LAST_PLAYED, playerConfig, patch, thr, launches>>
    /\ UNCHANGED notPlayer

\* DELETE /api/files/<name>: 400 for an unsafe name, 404 for an absent file,
\* else the file is removed.
api_delete_file(name) ==
    /\ audioFiles' = IF safe_filename(name) /\ name \in audioFiles
                      THEN audioFiles \ {name}
                      ELSE audioFiles
    /\ UNCHANGED <<wall, LAST_PLAYED, playerConfig, patch, thr, launches>>
    /\ UNCHANGED notPlayer

PatchBodies ==
    LET all == UNION {PatchValues(k) : k \in PatchKeys}
    IN  UNION {{f \in [K -> all] : \A k \in K : f[k] \in PatchValues(k)} :
               K \in SUBSET PatchKeys}

\* PATCH bodies that carry the delay alone.
DelayBodies == {f \in PatchBodies : DOMAIN f = {"delay"}}

\* The file lists explored where two request threads run side by side.
ConcurrentLists == {<<"bell.mp3">>, <<"missing.mp3">>}

PlayerNext(T, lists, bodies) ==
    \/ WallTick
    \/ \E t \in T, files \in lists : announce(t, files)
    \/ \E t \in T : play_audio_time(t)
    \/ \E t \in T : play_audio_check(t)
    \/ \E t \in T, ok \in BOOLEAN : play_audio_popen(t, ok)
    \/ \E t \in T : play_audio_store(t)
    \/ \E data \in bodies : player_api_patch_config(data)

\* ------------------------------------------------------------------------
\* keylistener.py
\* ------------------------------------------------------------------------

\* DEBOUNCE = 1.0 seconds, in ticks
DEBOUNCE == 1 * TicksPerSecond

\* The opened input devices, in the order of their file descriptors.
Devices == {1, 2}

\* Input events: key down (value 1), key release (value 0), and a
\* synchronisation event, which is no key event.
EventKinds ==
    {[type |-> "EV_KEY", value |-> 1], [type |-> "EV_KEY", value |-> 0],
     [type |-> "EV_SYN", value |-> 0]}

\* What send_trigger meets: status 200, another 2xx status, an HTTPError,
\* or a URLError/OSError (refused, unreachable, timed out after 5 s).
TriggerOutcomes == {"200", "2xx", "HTTPError", "URLError"}

\* A debounce that also drops an event exactly one window after the last.
DebouncedAtBoundary(now, prev) == now - prev <= DEBOUNCE

\* main: if now - last < DEBOUNCE
Debounced(now, prev) == now - prev < DEBOUNCE

\* select(): the devices with unread events, by ascending descriptor.
RECURSIVE Readable(_, _)
Readable(q, d) ==
    IF d \notin Devices THEN <<>>
    ELSE (IF q[d] # <<>> THEN <<d>> ELSE <<>>) \o Readable(q, d + 1)

\* The two latest trigger times, with one more.
RememberTrigger(history, t) ==
    LET all == Append(history, t)
    IN  IF Len(all) > 2 THEN Tail(all) ELSE all

\* send_trigger: the line it logs for an outcome; it raises nothing.
TriggerLogLine(outcome) ==
    CASE outcome = "200" -> "Trigger sent"
      [] outcome = "2xx" -> "Sender returned"
      [] outcome = "HTTPError" -> "Trigger failed: HTTP"
      [] outcome = "URLError" -> "Trigger failed"

ListenerStart(start) ==
    /\ mono = start
    /\ last = 0
    /\ devq = [d \in Devices |-> <<>>]
    /\ lpc = "select"
    /\ ready = <<>>
    /\ lastEvent = [seen |-> FALSE, first |-> FALSE, T |-> 0, prev |-> 0,
                    forwarded |-> FALSE, posts |-> 0]
    /\ triggers = <<>>
    /\ triggerLog = ""

\* The monotonic clock advances.
MonoTick ==
    /\ mono < MaxMono
    /\ mono' = mono + 1
    /\ UNCHANGED <<last, devq, lpc, ready, lastEvent, triggers, triggerLog>>
    /\ UNCHANGED notListener

\* A device reports an input event.
DeviceEvent(d, ev) ==
    /\ Len(devq[d]) < MaxQueue
    /\ devq' = [devq EXCEPT ![d] = Append(@, ev)]
    /\ UNCHANGED <<mono, last, lpc, ready, lastEvent, triggers, triggerLog>>
    /\ UNCHANGED notListener

\* A loop that leaves the POST to run in the background and selects again.
main_select_detached ==
    /\ lpc \in {"select", "post"}
    /\ Readable(devq, 1) # <<>>
    /\ ready' = Readable(devq, 1)
    /\ lpc' = "drain"
    /\ UNCHANGED <<mono, last, devq, lastEvent, triggers, triggerLog>>
    /\ UNCHANGED notListener

\* main: r, _, _ = select.select(...), blocking until a device is readable.
main_select ==
    /\ lpc = "select"
    /\ Readable(devq, 1) # <<>>
    /\ ready' = Readable(devq, 1)
    /\ lpc' = "drain"
    /\ UNCHANGED <<mono, last, devq, lastEvent, triggers, triggerLog>>
    /\ UNCHANGED notListener

\* main: one pass of the inner loop on the device being drained:
\* dev.read_one(), the two filters, the debounce check, last = now.
main_read_one(err) ==
    /\ lpc = "drain"
    /\ LET d == Head(ready)
           rest == Tail(ready)
       IN  IF err \/ devq[d] = <<>>
           THEN \* OSError or no event left: break, on to the next device
                /\ ready' = rest
                /\ lpc' = IF rest = <<>> THEN "select" ELSE "drain"
                /\ UNCHANGED <<last, devq, lastEvent, triggers>>
           ELSE LET event == Head(devq[d])
                IN  /\ devq' = [devq EXCEPT ![d] = Tail(@)]
                    /\ ready' = ready
                    /\ IF event.type # "EV_KEY" \/ event.value # 1
                       THEN UNCHANGED <<last, lpc, lastEvent, triggers>>
                       ELSE LET now == mono
                                drop == Debounced(now, last)
                            IN  /\ lastEvent' = [seen |-> TRUE,
                                                 first |-> ~lastEvent.seen,
                                                 T |-> now, prev |-> last,
                                                 forwarded |-> ~drop, posts |-> 0]
                                /\ IF drop
                                   THEN UNCHANGED <<last, lpc, triggers>>
                                   ELSE /\ last' = now
                                        /\ lpc' = "post"
                                        /\ triggers' = RememberTrigger(triggers, now)
    /\ UNCHANGED <<mono, triggerLog>>
    /\ UNCHANGED notListener

\* A send_trigger that posts a second time when the first attempt failed.
send_trigger_retry(outcome) ==
    /\ lpc = "post"
    /\ triggerLog' = TriggerLogLine(outcome)
    /\ lastEvent' = [lastEvent EXCEPT !.posts = @ + 1]
    /\ lpc' = IF outcome # "200" /\ lastEvent.posts = 0 THEN "post" ELSE "drain"
    /\ UNCHANGED <<mono, last, devq, ready, triggers>>
    /\ UNCHANGED notListener

\* A send_trigger that re-arms the debounce when the POST failed.
send_trigger_rearm(outcome) ==
    /\ lpc = "post"
    /\ triggerLog' = TriggerLogLine(outcome)
    /\ lastEvent' = [lastEvent EXCEPT !.posts = @ + 1]
    /\ lpc' = "drain"
    /\ last' = IF outcome = "200" THEN last ELSE 0
    /\ UNCHANGED <<mono, devq, ready, triggers>>
    /\ UNCHANGED notListener

\* send_trigger(): one urlopen of the POST to the sender, which returns or
\* fails; either is logged and main goes on draining.
send_trigger(outcome) ==
    /\ lpc = "post"
    /\ triggerLog' = TriggerLogLine(outcome)
    /\ lastEvent' = [lastEvent EXCEPT !.posts = @ + 1]
    /\ lpc' = "drain"
    /\ UNCHANGED <<mono, last, devq, ready, triggers>>
    /\ UNCHANGED notListener

ListenerNext ==
    \/ MonoTick
    \/ \E d \in Devices, ev \in EventKinds : DeviceEvent(d, ev)
    \/ main_select
    \/ \E err \in BOOLEAN : main_read_one(err)
    \/ \E outcome \in TriggerOutcomes : send_trigger(outcome)

\* ------------------------------------------------------------------------
\* sender.py
\* ------------------------------------------------------------------------

\* JSON null / a missing key, as config.get returns it.
None == <<"None">>

\* Characters of a server address: a blank, a slash, any other character.
ServerChars == {" ", "/", "h"}

\* Sequences over S of length at most n.
SeqUpTo(S, n) == UNION {[1..k -> S] : k \in 0..n}

\* The "server" values of config.json explored: null and short strings.
ServerValues == {None} \cup SeqUpTo(ServerChars, MaxServerLen)

\* The "audio_files_to_send" values explored: something that is no list, and
\* short lists of filenames and empty strings.
SendValues ==
    {[list |-> FALSE, items |-> <<>>]} \cup
    {[list |-> TRUE, items |-> l] : l \in SeqUpTo({"", "bell.mp3", "horn.mp3"}, MaxSend)}

\* What urlopen meets at the player: a 2xx response (200 or another), an
\* HTTPError for a status outside 2xx, a URLError/OSError (refused,
\* unreachable, timed out after 10 s).
Answers ==
    {[kind |-> "response", status |-> 200], [kind |-> "response", status |-> 204],
     [kind |-> "HTTPError", status |-> 400], [kind |-> "HTTPError", status |-> 500],
     [kind |-> "URLError", status |-> 0]}

NoAnswer == [kind |-> "none", status |-> 0]

\* config.json of the sender.  kind as for the player's file: "missing",
\* "unreadable", "empty", "invalid", "object" (its keys in the other fields),
\* "array" (JSON that is no object).
\* A fresh install of the sender: no config.json, every key missing.
NoSenderConfig ==
    [kind |-> "missing", server |-> None, available_audio_files |-> <<>>,
     audio_files_to_send |-> [list |-> FALSE, items |-> <<>>]]

\* load_config() of the sender: {} when the file is missing, unreadable or
\* no JSON, else whatever json.load returns.
sender_load_config(file) == IF file.kind \in {"object", "array"} THEN file ELSE NoSenderConfig

\* The loaded value is a dict: config.get works on it.
IsDict(config) == config.kind # "array"

\* save_config(config) of the sender, completed: config.json holds the dict.
sender_save_config(config) == [config EXCEPT !.kind = "object"]

\* x or ""
OrEmpty(x) == IF x = None THEN <<>> ELSE x

\* str.lstrip / str.rstrip of the characters in chars
RECURSIVE LStrip(_, _)
LStrip(str, chars) ==
    IF str # <<>> /\ Head(str) \in chars THEN LStrip(Tail(str), chars) ELSE str

RECURSIVE RStrip(_, _)
RStrip(str, chars) ==
    IF str # <<>> /\ str[Len(str)] \in chars
    THEN RStrip(SubSeq(str, 1, Len(str) - 1), chars)
    ELSE str

\* send: (config.get("server") or "").strip().rstrip("/")
SendServer(config) == RStrip(RStrip(LStrip(OrEmpty(config.server), {" "}), {" "}), {"/"})

\* A filter that keeps every entry of the list, the empty ones too.
SendFilesUnfiltered(config) ==
    IF config.audio_files_to_send.list THEN config.audio_files_to_send.items ELSE <<>>

\* send: [f for f in (files_raw if isinstance(files_raw, list) else []) if f]
SendFiles(config) ==
    LET raw == IF config.audio_files_to_send.list
               THEN config.audio_files_to_send.items ELSE <<>>
    IN  SelectSeq(raw, LAMBDA f : f # "")

\* send: the announce URL, the file parameter once per filename.
AnnounceUrl(server, files) ==
    [base |-> server, path |-> "/announce",
     query |-> [i \in 1..Len(files) |-> <<"file", files[i]>>]]

NoUrl == [base |-> <<>>, path |-> "", query |-> <<>>]

\* A mapping that takes every 2xx response for a success.
SendResultAny2xx(answer) ==
    CASE answer.kind = "response" ->
           [ok |-> TRUE, error |-> "", detail |-> 0, code |-> 200]
      [] answer.kind = "HTTPError" ->
           [ok |-> FALSE, error |-> "Server returned", detail |-> answer.status,
            code |-> 502]
      [] answer.kind = "URLError" ->
           [ok |-> FALSE, error |-> "URLError", detail |-> 0, code |-> 502]

\* send: the JSON result and status code for what urlopen met.
SendResult(answer) ==
    CASE answer.kind = "response" /\ answer.status # 200 ->
           [ok |-> FALSE, error |-> "Server returned", detail |-> answer.status,
            code |-> 502]
      [] answer.kind = "response" /\ answer.status = 200 ->
           [ok |-> TRUE, error |-> "", detail |-> 0, code |-> 200]
      [] answer.kind = "HTTPError" ->
           [ok |-> FALSE, error |-> "Server returned", detail |-> answer.status,
            code |-> 502]
      [] answer.kind = "URLError" ->
           [ok |-> FALSE, error |-> "URLError", detail |-> 0, code |-> 502]

NoResult == [ok |-> FALSE, error |-> "", detail |-> 0, code |-> 0]

\* The addresses under which a player is advertised on the network.
Adverts == {"10.0.0.1", "10.0.0.2"}

\* Listener.add_service: "http://%s:%d" % (ip, port)
ServiceUrl(ip) == <<"http://", ip, ":8000">>

\* The base URLs at which a player answers.
PlayerUrls == {ServiceUrl(ip) : ip \in Adverts}

\* Listener.add_service: self.server after an advertisement whose service
\* info was resolved (info) or was not.
ListenerServer(server, info, url) == IF info THEN url ELSE server

\* data.get("server") stripped: (value or "").strip().rstrip("/")
StripServer(value) == RStrip(RStrip(LStrip(OrEmpty(value), {" "}), {" "}), {"/"})

\* The truth value of config.get("server"): neither null nor "".
ServerSet(config) == config.server # None /\ config.server # <<>>

\* config.get("audio_files_to_send") or []  (a missing key reads as null)
ToSend(config) ==
    IF config.audio_files_to_send.list THEN config.audio_files_to_send.items ELSE <<>>

\* f in files
InList(f, files) == \E i \in 1..Len(files) : files[i] = f

\* fetch_remote_files(server_url): GET server_url/files.  The list the player
\* answers with, or None: no URL, nothing reachable at it, a timeout, a
\* status other than 200, a body that is no JSON list.
fetch_remote_files(server_url, reachable, audio) ==
    IF server_url = None \/ server_url = <<>> THEN None
    ELSE IF reachable /\ RStrip(server_url, {"/"}) \in PlayerUrls
         THEN list_files(audio)
         ELSE None

\* A retry rule that runs discovery again after every failed fetch.
RetryDiscoveryAlways(zeroconf_done) == TRUE

\* A retry rule under which a failed fetch never leads to discovery.
RetryDiscoveryNever(zeroconf_done) == FALSE

\* run_startup: after a failed fetch, "if not zeroconf_done"
RetryDiscovery(zeroconf_done) == ~zeroconf_done

\* A default rule that resets audio_files_to_send whenever files are listed.
NeedsDefaultAlways(config, files) == files # <<>>

\* run_startup: if not config.get("audio_files_to_send") and files
NeedsDefault(config, files) == ToSend(config) = <<>> /\ files # <<>>

\* The sender process as it starts: run_startup not yet entered.
Booting ==
    [pc |-> "boot", config |-> NoSenderConfig, before |-> NoSenderConfig,
     zeroconf_done |-> FALSE, retry |-> FALSE,
     server |-> None, first |-> None, adverts |-> 0,
     discoveries |-> 0, fetches |-> 0, files |-> None]

\* The sender process serving requests: run_startup has returned.
Serving == [Booting EXCEPT !.pc = "serving"]

\* /send before any request.  trigger names the key press whose POST the
\* request is (its time at the key listener), 0 for any other client.
IdleSend ==
    [pc |-> "idle", config |-> NoSenderConfig, url |-> NoUrl, calls |-> 0,
     answer |-> NoAnswer, result |-> NoResult, trigger |-> 0]

\* The sender serving requests over a given config.json, run_startup done.
SenderStart(config) ==
    /\ senderConfig = config
    /\ snd = [IdleSend EXCEPT !.config = config]
    /\ st = Serving

SenderConfigs ==
    {[kind |-> "object", server |-> sv,
      available_audio_files |-> <<"bell.mp3", "horn.mp3">>,
      audio_files_to_send |-> fs] : sv \in ServerValues, fs \in SendValues}

\* send(), up to urlopen: load the config, check the two preconditions,
\* build the URL and issue the GET.
SendStarted(file) ==
    LET config == sender_load_config(file)
        server == SendServer(config)
        files == SendFiles(config)
        fresh == [IdleSend EXCEPT !.pc = "done", !.config = config]
    IN  IF ~IsDict(config)
        THEN \* config.get raises AttributeError; Flask answers 500
             [fresh EXCEPT !.result = [ok |-> FALSE, error |-> "Internal Server Error",
                                       detail |-> 0, code |-> 500]]
        ELSE IF server = <<>>
        THEN [fresh EXCEPT !.result = [ok |-> FALSE, error |-> "No player configured",
                                       detail |-> 0, code |-> 400]]
        ELSE IF files = <<>>
        THEN [fresh EXCEPT !.result = [ok |-> FALSE, error |-> "No audio files to send",
                                       detail |-> 0, code |-> 400]]
        ELSE [fresh EXCEPT !.pc = "wait", !.url = AnnounceUrl(server, files),
                           !.calls = 1]

\* A /send request is taken by the sender.
send_begin ==
    /\ st.pc = "serving"
    /\ snd.pc \in {"idle", "done"}
    /\ snd' = SendStarted(senderConfig)
    /\ UNCHANGED <<senderConfig, st>>
    /\ UNCHANGED notSender

\* send(): urlopen returns or raises, and the result is answered.
send_end(answer) ==
    /\ snd.pc = "wait"
    /\ snd' = [snd EXCEPT !.pc = "done", !.answer = answer, !.result = SendResult(answer)]
    /\ UNCHANGED <<senderConfig, st>>
    /\ UNCHANGED notSender

\* python sender.py: the process starts (again), config.json as it was left.
sender_restart ==
    /\ st.pc \in {"serving", "crashed"}
    /\ snd.pc # "wait"
    /\ st' = Booting
    /\ snd' = IdleSend
    /\ UNCHANGED senderConfig
    /\ UNCHANGED notSender

\* run_startup: config = load_config(); with no server configured,
\* find_server() is entered: a fresh Listener, then the sleep.
run_startup_begin ==
    /\ st.pc = "boot"
    /\ LET config == sender_load_config(senderConfig)
           run == [Booting EXCEPT !.config = config, !.before = senderConfig]
       IN  st' = IF ~IsDict(config)
                 THEN \* config.get raises AttributeError; the process exits
                      [run EXCEPT !.pc = "crashed"]
                 ELSE IF ~ServerSet(config)
                 THEN [run EXCEPT !.pc = "discover", !.discoveries = 1]
                 ELSE [run EXCEPT !.pc = "fetch"]
    /\ UNCHANGED <<senderConfig, snd>>
    /\ UNCHANGED notSender

\* Listener.add_service: an advertisement arrives while find_server sleeps;
\* get_service_info resolves it (info) or gives None.
add_service(ip, info) ==
    /\ st.pc = "discover"
    /\ st.adverts < MaxAdverts
    /\ st' = [st EXCEPT !.adverts = @ + 1,
                        !.server = ListenerServer(@, info, ServiceUrl(ip)),
                        !.first = IF info /\ @ = None THEN ServiceUrl(ip) ELSE @]
    /\ UNCHANGED <<senderConfig, snd>>
    /\ UNCHANGED notSender

\* find_server returns listener.server after the timeout (None at once where
\* Zeroconf is not installed); run_startup stores a found server and saves.
find_server_end ==
    /\ st.pc = "discover"
    /\ LET server == st.server
           config == IF server # None THEN [st.config EXCEPT !.server = server]
                     ELSE st.config
       IN  /\ senderConfig' = IF server # None THEN sender_save_config(config)
                              ELSE senderConfig
           /\ st' = [st EXCEPT !.zeroconf_done = TRUE, !.config = config,
                               !.pc = IF server # None THEN "fetch" ELSE "done"]
    /\ UNCHANGED snd
    /\ UNCHANGED notSender

\* run_startup: files = fetch_remote_files(config["server"]).  A list is
\* stored as available_audio_files and saved; a failure of the first fetch
\* leads to discovery unless discovery was done already.
run_startup_fetch(reachable) ==
    /\ st.pc = "fetch"
    /\ LET files == fetch_remote_files(st.config.server, reachable, audioFiles)
           r == [st EXCEPT !.fetches = @ + 1, !.files = files]
       IN  IF files # None
           THEN LET config == [st.config EXCEPT !.available_audio_files = files]
                IN  /\ senderConfig' = sender_save_config(config)
                    /\ st' = [r EXCEPT !.config = config,
                                       !.pc = IF NeedsDefault(config, files)
                                              THEN "default" ELSE "done"]
           ELSE /\ UNCHANGED senderConfig
                /\ st' = IF ~st.retry /\ RetryDiscovery(st.zeroconf_done)
                         THEN [r EXCEPT !.pc = "discover", !.retry = TRUE,
                                        !.discoveries = @ + 1, !.server = None,
                                        !.first = None, !.adverts = 0]
                         ELSE [r EXCEPT !.pc = "done"]
    /\ UNCHANGED snd
    /\ UNCHANGED notSender

\* run_startup: config["audio_files_to_send"] = [files[0]]; save_config(config)
run_startup_default ==
    /\ st.pc = "default"
    /\ LET config == [st.config EXCEPT !.audio_files_to_send =
                                         [list |-> TRUE, items |-> <<st.files[1]>>]]
       IN  /\ senderConfig' = sender_save_config(config)
           /\ st' = [st EXCEPT !.config = config, !.pc = "done"]
    /\ UNCHANGED snd
    /\ UNCHANGED notSender

\* run_startup has returned; app.run starts serving.
app_run ==
    /\ st.pc = "done"
    /\ st' = Serving
    /\ UNCHANGED <<senderConfig, snd>>
    /\ UNCHANGED notSender

\* The steps of run_startup itself.
run_startup ==
    \/ run_startup_begin
    \/ find_server_end
    \/ \E reachable \in BOOLEAN : run_startup_fetch(reachable)
    \/ run_startup_default

\* The PATCH bodies explored: "server" cleared, blank, a player's URL plain
\* and with a trailing slash, an address where no player answers;
\* "audio_files_to_send" no list, empty, with known, absent and repeated
\* names; both keys; neither.
PatchServers ==
    {None, <<" ">>, <<"h">>} \cup PlayerUrls
        \cup {ServiceUrl(ip) \o <<"/">> : ip \in Adverts}

PatchSendValues ==
    {[list |-> FALSE, items |-> <<>>], [list |-> TRUE, items |-> <<>>],
     [list |-> TRUE, items |-> <<"horn.mp3">>],
     [list |-> TRUE, items |-> <<"horn.mp3", "bell.mp3">>],
     [list |-> TRUE, items |-> <<"missing.mp3", "bell.mp3">>]}

NoSendValue == [list |-> FALSE, items |-> <<>>]

SenderPatchBodies ==
    {[has_server |-> TRUE, server |-> s, has_files |-> FALSE, files |-> NoSendValue] :
        s \in PatchServers}
    \cup {[has_server |-> FALSE, server |-> None, has_files |-> TRUE, files |-> v] :
        v \in PatchSendValues}
    \cup {[has_server |-> TRUE, server |-> ServiceUrl("10.0.0.1"), has_files |-> TRUE,
           files |-> [list |-> TRUE, items |-> <<"horn.mp3">>]],
          [has_server |-> FALSE, server |-> None, has_files |-> FALSE,
           files |-> NoSendValue]}

\* PATCH /api/config of the sender.  "server": cleared, or validated by
\* fetching its file list (400 and nothing saved when that fails or is
\* empty), the files to send filtered against the list and defaulted to its
\* first entry.  "audio_files_to_send": filtered against the stored list.
sender_api_patch_config(data, reachable) ==
    /\ st.pc = "serving"
    /\ LET config == sender_load_config(senderConfig)
       IN  IF ~IsDict(config)
           THEN \* item assignment or config.get raises; nothing is saved
                UNCHANGED senderConfig
           ELSE IF data.has_server
           THEN LET new_server == StripServer(data.server)
                    files == fetch_remote_files(new_server, reachable, audioFiles)
                    kept == SelectSeq(ToSend(config), LAMBDA f : InList(f, files))
                IN  senderConfig' =
                      IF new_server = <<>>
                      THEN [kind |-> "object", server |-> None,
                            available_audio_files |-> <<>>,
                            audio_files_to_send |-> [list |-> TRUE, items |-> <<>>]]
                      ELSE IF files = None \/ files = <<>>
                      THEN senderConfig
                      ELSE [kind |-> "object", server |-> new_server,
                            available_audio_files |-> files,
                            audio_files_to_send |->
                              [list |-> TRUE,
                               items |-> IF kept = <<>> THEN <<files[1]>> ELSE kept]]
           ELSE IF data.has_files
           THEN LET requested == IF data.files.list THEN data.files.items ELSE <<>>
                    available == config.available_audio_files
                IN  senderConfig' = sender_save_config(
                      [config EXCEPT !.audio_files_to_send =
                         [list |-> TRUE,
                          items |-> SelectSeq(requested, LAMBDA f : InList(f, available))]])
           ELSE UNCHANGED senderConfig
    /\ UNCHANGED <<snd, st>>
    /\ UNCHANGED notSender

\* The sender from its start on, beside a player whose audio files come and go.
StartupNext ==
    \/ sender_restart
    \/ run_startup_begin
    \/ \E ip \in Adverts, info \in BOOLEAN : add_service(ip, info)
    \/ find_server_end
    \/ \E reachable \in BOOLEAN : run_startup_fetch(reachable)
    \/ run_startup_default
    \/ app_run
    \/ \E data \in SenderPatchBodies, reachable \in BOOLEAN :
           sender_api_patch_config(data, reachable)
    \/ \E filename \in UploadNames : api_upload_file(filename)
    \/ \E name \in DeleteNames : api_delete_file(name)

SenderNext ==
    \/ send_begin
    \/ \E answer \in Answers : send_end(answer)

\* ------------------------------------------------------------------------
\* The forwarding chain, request by request
\* ------------------------------------------------------------------------

\* request.args.getlist(key): the values of the key in the query, in order.
RECURSIVE getlist(_, _)
getlist(query, key) ==
    IF query = <<>> THEN <<>>
    ELSE (IF Head(query)[1] = key THEN <<Head(query)[2]>> ELSE <<>>)
            \o getlist(Tail(query), key)

\* What urlopen in send() meets for the player's answer to an announce
\* request: a response for 200, an HTTPError for 400 and 500.
PlayerAnswer(r) ==
    IF r.status = 200 THEN [kind |-> "response", status |-> 200]
    ELSE [kind |-> "HTTPError", status |-> r.status]

\* What urlopen in send_trigger meets for the sender's answer to /send:
\* status 200, or an HTTPError for 400, 500 and 502.
SenderAnswer(result) == IF result.code = 200 THEN "200" ELSE "HTTPError"

\* The POST of the latest forwarded trigger reaches the sender and send()
\* runs up to its urlopen.  The POST may arrive after send_trigger gave up
\* on it: nothing withdraws a request that was sent.
relay_send_begin ==
    /\ st.pc = "serving"
    /\ snd.pc \in {"idle", "done"}
    /\ lastEvent.forwarded
    /\ snd.trigger # lastEvent.T
    /\ snd' = [SendStarted(senderConfig) EXCEPT !.trigger = lastEvent.T]
    /\ UNCHANGED <<senderConfig, st>>
    /\ UNCHANGED notSender

\* The announce call of the /send request reaches the player, if the
\* configured server is the player; it may arrive after send() gave up on it.
relay_announce ==
    /\ snd.calls = 1
    /\ snd.trigger # 0
    /\ snd.pc = "wait" \/ (snd.pc = "done" /\ snd.answer.kind = "URLError")
    /\ snd.url.base \in PlayerUrls
    /\ thr[1].pc \in {"idle", "done"}
    /\ thr[1].trigger # snd.trigger
    /\ thr' = [thr EXCEPT ![1] =
           [Announced(playerConfig, getlist(snd.url.query, "file"), audioFiles)
               EXCEPT !.trigger = snd.trigger]]
    /\ UNCHANGED <<wall, LAST_PLAYED, playerConfig, patch, audioFiles, launches>>
    /\ UNCHANGED notPlayer

\* send(): urlopen returns the player's answer to this request, or fails:
\* the player is not reached, or the timeout of 10 s expires first.
relay_send_end(answer) ==
    /\ \/ answer.kind = "URLError"
       \/ /\ thr[1].trigger = snd.trigger
          /\ thr[1].pc = "done"
          /\ answer = PlayerAnswer(thr[1])
    /\ send_end(answer)

\* send_trigger(): urlopen returns the sender's answer to this POST, or
\* fails: the sender is not reached, or the timeout of 5 s expires first.
relay_send_trigger(outcome) ==
    /\ \/ outcome = "URLError"
       \/ /\ snd.trigger = lastEvent.T
          /\ snd.pc = "done"
          /\ outcome = SenderAnswer(snd.result)
    /\ send_trigger(outcome)

\* ------------------------------------------------------------------------
\* Specifications
\* ------------------------------------------------------------------------

\* The player alone, started at wall-clock time 0 or late.
PlayerInit ==
    /\ \E start \in {0, LateStart} : PlayerStart(start)
    /\ ListenerStart(0)
    /\ SenderStart(NoSenderConfig)

\* Two request threads, announce requests racing each other.
PlayerNextThreaded == PlayerNext(Threads, ConcurrentLists, DelayBodies)

SpecPlayer == PlayerInit /\ [][PlayerNextThreaded]_vars

\* One request at a time, every explored file list and PATCH body.
PlayerNextSerial == PlayerNext({1}, RequestLists, PatchBodies)

SpecAnnounce == PlayerInit /\ [][PlayerNextSerial]_vars

\* The key listener alone, started at any monotonic clock reading up to the
\* debounce window.
ListenerInit ==
    /\ \E start \in 0..DEBOUNCE : ListenerStart(start)
    /\ PlayerStart(0)
    /\ SenderStart(NoSenderConfig)

SpecListener == ListenerInit /\ [][ListenerNext]_vars

\* The sender's /send alone, over every explored config.json.
SenderInit ==
    /\ \E config \in SenderConfigs : SenderStart(config)
    /\ PlayerStart(0)
    /\ ListenerStart(0)

SpecSender == SenderInit /\ [][SenderNext]_vars

\* A fresh install of the sender starting beside a running player.
StartupInit ==
    /\ senderConfig = NoSenderConfig
    /\ snd = IdleSend
    /\ st = Booting
    /\ PlayerStart(0)
    /\ ListenerStart(0)

SpecStartup == StartupInit /\ [][StartupNext]_vars

\* A player started at wall-clock time 0 with bell.mp3 and horn.mp3 and the
\* saved config {repeats: 2, delay: 10, volume: 1000}, and a sender
\* configured for it with bell.mp3 to send.
ForwardInit ==
    /\ wall = 0
    /\ LAST_PLAYED = 0
    /\ playerConfig = save_config([repeats |-> 2, delay |-> 10, volume |-> 1000])
    /\ patch = NoPatch
    /\ audioFiles = {"bell.mp3", "horn.mp3"}
    /\ thr = [t \in Threads |-> IdleThread]
    /\ launches = <<>>
    /\ ListenerStart(0)
    /\ SenderStart([kind |-> "object", server |-> ServiceUrl("10.0.0.1"),
                    available_audio_files |-> <<"bell.mp3", "horn.mp3">>,
                    audio_files_to_send |-> [list |-> TRUE, items |-> <<"bell.mp3">>]])

\* The announce requests that /send forwards, one at a time, as the clock
\* runs.
ForwardNext ==
    \/ LongWallTick
    \/ announce(1, SendFiles(senderConfig))
    \/ play_audio_time(1)
    \/ play_audio_check(1)
    \/ \E ok \in BOOLEAN : play_audio_popen(1, ok)
    \/ play_audio_store(1)

SpecForward == ForwardInit /\ [][ForwardNext]_vars

\* The key listener with one device and a sender configured for a player,
\* each hop of the chain taking its requests as they come.
ChainInit ==
    /\ ListenerStart(0)
    /\ PlayerStart(0)
    /\ SenderStart([kind |-> "object", server |-> ServiceUrl("10.0.0.1"),
                    available_audio_files |-> <<"bell.mp3", "horn.mp3">>,
                    audio_files_to_send |-> [list |-> TRUE, items |-> <<"bell.mp3">>]])

ChainNext ==
    \/ MonoTick
    \/ DeviceEvent(1, [type |-> "EV_KEY", value |-> 1])
    \/ main_select
    \/ \E err \in BOOLEAN : main_read_one(err)
    \/ \E outcome \in TriggerOutcomes : send_trigger(outcome)
    \/ send_begin
    \/ \E answer \in Answers : send_end(answer)

SpecChain == ChainInit /\ [][ChainNext]_vars

\* The chain linked request by request: one device, the sender configured
\* for the player, the player started late enough for a launch.  The sender
\* and the player take one request of the chain at a time.
RelayInit ==
    /\ ListenerStart(0)
    /\ PlayerStart(LateStart)
    /\ SenderStart([kind |-> "object", server |-> ServiceUrl("10.0.0.1"),
                    available_audio_files |-> <<"bell.mp3", "horn.mp3">>,
                    audio_files_to_send |-> [list |-> TRUE, items |-> <<"bell.mp3">>]])

RelayNext ==
    \/ MonoTick
    \/ DeviceEvent(1, [type |-> "EV_KEY", value |-> 1])
    \/ main_select
    \/ \E err \in BOOLEAN : main_read_one(err)
    \/ \E outcome \in TriggerOutcomes : relay_send_trigger(outcome)
    \/ relay_send_begin
    \/ \E answer \in Answers : relay_send_end(answer)
    \/ relay_announce
    \/ play_audio_time(1)
    \/ play_audio_check(1)
    \/ \E ok \in BOOLEAN : play_audio_popen(1, ok)
    \/ play_audio_store(1)

SpecRelay == RelayInit /\ [][RelayNext]_vars

\* The states of the player's config.json explored: no file, a file that
\* cannot be read, an empty one, one that is no JSON, JSON of another shape,
\* and JSON objects: complete, with a key missing, with a value out of range,
\* with a float, with strings that do and do not spell an integer, with null.
PlayerFiles ==
    {[kind |-> k, data |-> NoData] :
        k \in {"missing", "unreadable", "empty", "invalid", "array", "number"}}
    \cup
    {[kind |-> "object", data |-> d] : d \in
        {[repeats |-> IntValue(2), delay |-> IntValue(10), volume |-> IntValue(1000)],
         [repeats |-> IntValue(3), delay |-> Missing, volume |-> Missing],
         [repeats |-> Missing, delay |-> IntValue(DELAY_MAX + 1), volume |-> Missing],
         [repeats |-> FloatValue(2), delay |-> NumString(5), volume |-> Missing],
         [repeats |-> OtherString, delay |-> IntValue(10), volume |-> IntValue(1000)],
         [repeats |-> IntValue(2), delay |-> Null, volume |-> IntValue(1000)]}}

\* The states of the sender's config.json explored: the same kinds of file,
\* and a complete object.
SenderFiles ==
    {[NoSenderConfig EXCEPT !.kind = k] :
        k \in {"missing", "unreadable", "empty", "invalid", "array"}}
    \cup
    {[kind |-> "object", server |-> ServiceUrl("10.0.0.1"),
      available_audio_files |-> <<"bell.mp3", "horn.mp3">>,
      audio_files_to_send |-> [list |-> TRUE, items |-> <<"bell.mp3">>]]}

\* Player and sender serving, each over a config.json in any of these states.
ConfigInit ==
    /\ wall = LateStart
    /\ LAST_PLAYED = 0
    /\ playerConfig \in PlayerFiles
    /\ patch = NoPatch
    /\ audioFiles = {"bell.mp3", "horn.mp3"}
    /\ thr = [t \in Threads |-> IdleThread]
    /\ launches = <<>>
    /\ ListenerStart(0)
    /\ \E file \in SenderFiles : SenderStart(file)

\* Announce requests on one thread beside a PATCH that saves, and /send.
ConfigNext ==
    \/ announce(1, <<"bell.mp3">>)
    \/ play_audio_time(1)
    \/ play_audio_check(1)
    \/ \E ok \in BOOLEAN : play_audio_popen(1, ok)
    \/ play_audio_store(1)
    \/ \E data \in DelayBodies : save_config_open(data)
    \/ save_config_dump
    \/ send_begin
    \/ \E answer \in Answers : send_end(answer)

SpecConfig == ConfigInit /\ [][ConfigNext]_vars

\* ------------------------------------------------------------------------
\* Properties of the player
\* ------------------------------------------------------------------------

\* Every requested name resolves to something that exists under its joined path.
AllExist(files) ==
    /\ files # <<>>
    /\ \A i \in 1..Len(files) : PathExists(JoinAudioDir(files[i]), audioFiles)

Distance(a, b) == IF a < b THEN b - a ELSE a - b

\* C1: two announce requests with valid files and the same delay d > 0 whose
\* sampled times are less than d apart never both launch the decoder.
C1_AtMostOneLaunch ==
    \A t1, t2 \in Threads :
        (/\ t1 # t2
         /\ thr[t1].launched /\ thr[t2].launched
         /\ thr[t1].cfg.delay = thr[t2].cfg.delay
         /\ thr[t1].cfg.delay > 0)
        => Distance(thr[t1].now, thr[t2].now) >= thr[t1].cfg.delay

\* C2: a request whose files all exist calls the decoder iff the gate
\* now - LAST_PLAYED it observed is at least the delay it read from the config;
\* below the delay it launches nothing, writes nothing and answers 200 "OK\n".
C2_ThrottleDecides ==
    \A t \in Threads :
        LET r == thr[t]
        IN  (AllExist(r.files) /\ r.pc \in {"popen", "store", "done"}) =>
              /\ (r.pc = "done") => (r.calls = 1 <=> r.gate >= r.cfg.delay)
              /\ (r.pc \in {"popen", "store"}) => r.gate >= r.cfg.delay
              /\ (r.pc = "done" /\ r.gate < r.cfg.delay) =>
                    /\ r.status = 200 /\ r.body = "OK\n"
                    /\ r.calls = 0 /\ ~r.launched /\ ~r.stored
              /\ r.launched => r.gate >= r.cfg.delay

\* C2 witness: one finished request was throttled and one launched the decoder.
C2_Witness ==
    \E t, u \in Threads :
        /\ thr[t].pc = "done" /\ AllExist(thr[t].files)
        /\ thr[t].status = 200 /\ thr[t].calls = 0
        /\ thr[t].gate < thr[t].cfg.delay
        /\ thr[u].pc = "done" /\ thr[u].launched /\ thr[u].status = 200
        /\ thr[u].gate >= thr[u].cfg.delay /\ thr[u].cfg.delay > 0

\* C3: two consecutive decoder launches made under the same delay d are at
\* least d seconds apart.
C3_LaunchesSeparated ==
    (Len(launches) = 2 /\ launches[1].delay = launches[2].delay)
        => launches[2].now - launches[1].now >= launches[2].delay

\* C4: LAST_PLAYED never decreases.
C4_LastPlayedMonotone == [][LAST_PLAYED' >= LAST_PLAYED]_vars

\* C5: a request that names no file, or names a file that does not exist, is
\* answered 400 without calling the decoder and without writing LAST_PLAYED.
C5_UnknownFileRejected ==
    \A t \in Threads :
        LET r == thr[t]
        IN  (r.pc # "idle" /\ ~AllExist(r.files)) =>
              /\ r.pc = "done" /\ r.status = 400
              /\ r.calls = 0 /\ ~r.launched /\ ~r.stored

\* C5 witness: a request whose last name is absent was rejected after an
\* earlier launch had set LAST_PLAYED.
C5_Witness ==
    \E t \in Threads :
        /\ thr[t].pc = "done" /\ thr[t].status = 400
        /\ thr[t].files = <<"bell.mp3", "missing.mp3">>
        /\ LAST_PLAYED > 0
        /\ wall - LAST_PLAYED >= load_config(playerConfig).delay

\* C6: a request that passes the throttle calls the decoder exactly once, with
\* the requested files' paths repeated in sequence: repeats * n entries, entry
\* i being requested file ((i - 1) mod n) + 1.
C6_PlayListConcatenated ==
    \A t \in Threads :
        LET r == thr[t]
            n == Len(r.files)
        IN  /\ (r.pc \in {"store", "done"} /\ AllExist(r.files)
                /\ r.gate >= r.cfg.delay) => r.calls = 1
            /\ r.calls <= 1
            /\ r.calls = 1 =>
                 /\ Len(r.args) = r.cfg.repeats * n
                 /\ \A i \in 1..Len(r.args) :
                        r.args[i] = JoinAudioDir(r.files[((i - 1) % n) + 1])

\* C6 witness: [bell, horn] launched with repeats = 3.
C6_Witness ==
    \E t \in Threads :
        /\ thr[t].launched /\ thr[t].cfg.repeats = 3
        /\ thr[t].files = <<"bell.mp3", "horn.mp3">>
        /\ Len(thr[t].args) = 6

\* ------------------------------------------------------------------------
\* Properties of the key listener
\* ------------------------------------------------------------------------

\* C7: a key-down event read at monotonic time T is forwarded iff
\* T - last >= DEBOUNCE; last becomes T exactly when it is forwarded; two
\* consecutive forwarded triggers are at least DEBOUNCE apart.
C7_Debounce ==
    /\ lastEvent.seen =>
          /\ lastEvent.forwarded <=> (lastEvent.T - lastEvent.prev >= DEBOUNCE)
          /\ last = IF lastEvent.forwarded THEN lastEvent.T ELSE lastEvent.prev
    /\ Len(triggers) = 2 => triggers[2] - triggers[1] >= DEBOUNCE
    /\ lpc = "post" => (lastEvent.forwarded /\ last = lastEvent.T)

\* C7 witness: after two forwarded triggers a further key-down was dropped.
C7_Witness ==
    /\ Len(triggers) = 2
    /\ lastEvent.seen /\ ~lastEvent.forwarded
    /\ lastEvent.T > triggers[2]

\* C8: the first key-down event after the listener starts is forwarded.
C8_FirstEventForwarded ==
    (lastEvent.seen /\ lastEvent.first) => lastEvent.forwarded

\* ------------------------------------------------------------------------
\* Properties of the sender
\* ------------------------------------------------------------------------

\* The configured server address is null, empty or blanks only.
BlankServer(config) ==
    \/ config.server = None
    \/ \A i \in 1..Len(config.server) : config.server[i] = " "

\* audio_files_to_send is no list, or holds nothing but empty entries.
NoFilesToSend(config) ==
    \/ ~config.audio_files_to_send.list
    \/ \A i \in 1..Len(config.audio_files_to_send.items) :
           config.audio_files_to_send.items[i] = ""

\* C9: /send with a blank server address, or with no non-empty entry in
\* audio_files_to_send, answers 400 with ok = false and an error text, and
\* calls the player not at all.
C9_PreconditionsRejected ==
    (snd.pc # "idle" /\ (BlankServer(snd.config) \/ NoFilesToSend(snd.config))) =>
        /\ snd.pc = "done"
        /\ snd.result.code = 400 /\ ~snd.result.ok /\ snd.result.error # ""
        /\ snd.calls = 0 /\ snd.url = NoUrl

\* C9 witness: a server is configured, the list holds only an empty entry,
\* and the request was answered 400.
C9_Witness ==
    /\ snd.pc = "done" /\ snd.result.code = 400
    /\ ~BlankServer(snd.config)
    /\ snd.config.audio_files_to_send = [list |-> TRUE, items |-> <<"">>]

\* C10 as stated: every 2xx response yields success, every status outside
\* 2xx and every network failure yields 502.
C10_Every2xxSucceeds ==
    (snd.pc = "done" /\ snd.calls = 1) =>
        /\ (snd.answer.kind = "response" /\ snd.answer.status \in 200..299)
              => (snd.result.ok /\ snd.result.code = 200)
        /\ snd.answer.kind = "HTTPError" => (~snd.result.ok /\ snd.result.code = 502)
        /\ snd.answer.kind = "URLError" => (~snd.result.ok /\ snd.result.code = 502)

\* C10 amended: status 200 yields success; every other status, a 2xx other
\* than 200 included, yields 502 naming the status; a network failure or
\* timeout yields 502; every request ends with a result, 200, 400 or 502.
C10_Only200Succeeds ==
    /\ (snd.pc = "done" /\ snd.calls = 1) =>
          /\ (snd.answer.kind = "response" /\ snd.answer.status = 200)
                => (snd.result.ok /\ snd.result.code = 200)
          /\ (snd.answer.kind \in {"response", "HTTPError"} /\ snd.answer.status # 200)
                => (/\ ~snd.result.ok /\ snd.result.code = 502
                    /\ snd.result.detail = snd.answer.status)
          /\ snd.answer.kind = "URLError" => (~snd.result.ok /\ snd.result.code = 502)
    /\ snd.pc = "done" => snd.result.code \in {200, 400, 502}
    /\ snd.pc = "wait" => snd.calls = 1

\* C10 witness: the player answered 204 and /send answered 502.
C10_Witness ==
    /\ snd.pc = "done" /\ snd.calls = 1
    /\ snd.answer = [kind |-> "response", status |-> 204]
    /\ snd.result.code = 502

\* ------------------------------------------------------------------------
\* Properties of the sender's startup and configuration
\* ------------------------------------------------------------------------

\* C11: in every state of the persisted sender config, every entry of
\* audio_files_to_send is an element of available_audio_files.
C11_ToSendAvailable ==
    \A i \in 1..Len(ToSend(senderConfig)) :
        InList(ToSend(senderConfig)[i], senderConfig.available_audio_files)

\* C12: within one discovery attempt the recorded candidate is the address of
\* the first advertisement resolved, later ones leave it unchanged; with none
\* resolved the candidate is None.
C12_FirstResponderWins ==
    st.pc = "discover" => st.server = st.first

\* The progress of one run of run_startup, counted in steps.
Rank(r) ==
    (MaxAdverts + 2) * (r.discoveries + r.fetches)
      + (CASE r.pc = "boot" -> 0
           [] r.pc = "discover" -> r.adverts
           [] r.pc = "fetch" -> MaxAdverts + 1
           [] r.pc = "default" -> 0
           [] r.pc = "done" -> MaxAdverts + 1
           [] r.pc = "serving" -> MaxAdverts + 1)

Running(r) == r.pc \in {"boot", "discover", "fetch", "default"}

\* C13: every run of run_startup terminates after at most one discovery
\* attempt and at most two file-listing fetches: the counts never exceed one
\* and two, a run that has not returned can always take a step, and every
\* step of a run moves it strictly forward in a bounded order.
C13_StartupTerminates ==
    /\ [](/\ st.discoveries <= 1 /\ st.fetches <= 2
          /\ Rank(st) <= 3 * (MaxAdverts + 2) + MaxAdverts + 1
          /\ Running(st) => ENABLED run_startup)
    /\ [][(Running(st) /\ st' # st) => (Rank(st') > Rank(st))]_vars

\* C13 witness: a run that returned after one discovery and two fetches.
C13_Witness ==
    st.pc = "done" /\ st.discoveries = 1 /\ st.fetches = 2

\* The config a run started from is settled with respect to the file list
\* the player gave in that run: a server is set, the list equals the stored
\* available_audio_files, and audio_files_to_send is not empty.
Settled(r) ==
    /\ ServerSet(r.before)
    /\ r.fetches = 1 /\ r.files # None
    /\ r.before.available_audio_files = r.files
    /\ ToSend(r.before) # <<>>

\* C14: a run of run_startup over a settled config (its server answers, the
\* stored available files equal the player's inventory, audio_files_to_send
\* is not empty) leaves the persisted config as it was.
C14_StartupIdempotent ==
    (st.pc = "done" /\ Settled(st)) => senderConfig = st.before

\* C14 witness: a settled config whose files to send were chosen by PATCH
\* came through a run.
C14_Witness ==
    /\ st.pc = "done" /\ Settled(st)
    /\ ToSend(st.before) = <<"horn.mp3">>
    /\ Len(st.before.available_audio_files) = 2

\* ------------------------------------------------------------------------
\* Properties of the config files
\* ------------------------------------------------------------------------

\* C15: loading a config never fails, whatever the state of the storage
\* file: no announce request and no /send request is answered with a server
\* error because of the stored config (a 500 comes only from a decoder that
\* could not be started).
C15_LoadNeverFails ==
    /\ \A t \in Threads :
          (thr[t].pc = "done" /\ thr[t].calls = 0) => thr[t].status # 500
    /\ snd.pc = "done" => snd.result.code # 500

\* C16: an announce that loads the config while a PATCH is saving it gets
\* either the complete record from before the save or the complete record
\* being written, never the defaults in place of them.
C16_LoadSeesWholeRecord ==
    [][\A t \in Threads :
          (/\ patch.pc = "dump"
           /\ thr[t].pc \in {"idle", "done"}
           /\ thr'[t] # thr[t])
          => thr'[t].cfg \in {patch.before, patch.config}]_vars

\* ------------------------------------------------------------------------
\* Properties of the forwarding chain
\* ------------------------------------------------------------------------

\* C17: with a freshly started player (LAST_PLAYED = 0), delay 10 and
\* repeats 2, the announce for bell.mp3 sampled at time 0 launches
\* [bell.mp3, bell.mp3] and leaves LAST_PLAYED = 0, one sampled at 5 after
\* that launch launches nothing, one sampled at 15 launches again and sets
\* LAST_PLAYED = 15; the first announce after the start is never throttled.
C17_FirstAnnounceLaunches ==
    LET r == thr[1]
        bell == JoinAudioDir("bell.mp3")
    IN  (r.pc = "done" /\ r.status = 200 /\ r.files = <<"bell.mp3">>) =>
          /\ launches # <<>>
          /\ (r.now = 0 /\ r.gate = 0) =>
                (r.launched /\ r.args = <<bell, bell>> /\ LAST_PLAYED = 0)
          /\ (r.now = 5 /\ r.gate = 5) => (~r.launched /\ r.calls = 0)
          /\ (r.now = 15 /\ r.gate = 15) =>
                (r.launched /\ r.args = <<bell, bell>> /\ LAST_PLAYED = 15)

\* C18: no hop retries.  A forwarded trigger has had exactly one POST attempt
\* once send_trigger is over, whatever its outcome, and none before; a
\* dropped key-down has none; a /send request makes at most one announce
\* call, and exactly one when the player's answer or failure was met.
C18_NoRetry ==
    /\ lastEvent.posts <= 1
    /\ lpc = "post" => (lastEvent.forwarded /\ lastEvent.posts = 0)
    /\ (lastEvent.seen /\ lastEvent.forwarded /\ lpc # "post") => lastEvent.posts = 1
    /\ (lastEvent.seen /\ ~lastEvent.forwarded) => lastEvent.posts = 0
    /\ snd.calls <= 1
    /\ (snd.pc = "done" /\ snd.answer # NoAnswer) => snd.calls = 1

\* C18 witness: a forwarded trigger whose POST failed and a /send whose
\* announce call timed out, each attempted once.
C18_Witness ==
    /\ lastEvent.forwarded /\ lpc # "post"
    /\ triggerLog = "Trigger failed" /\ lastEvent.posts = 1
    /\ snd.pc = "done" /\ snd.answer.kind = "URLError" /\ snd.calls = 1

\* ------------------------------------------------------------------------
\* Further properties of the player
\* ------------------------------------------------------------------------

\* The regular files inside the audio directory.
AudioFilePaths == {AUDIO_DIR \o <<n>> : n \in audioFiles}

\* C19: every path passed to the decoder denotes a regular file inside the
\* audio directory, and a request with a name that is no plain filename (a
\* path separator, "..", or nothing) is answered 400 without a decoder call.
C19_OnlyAudioFilesPlayed ==
    \A t \in Threads :
        LET r == thr[t]
        IN  /\ \A i \in 1..Len(r.args) : Resolve(<<>>, r.args[i]) \in AudioFilePaths
            /\ (r.pc # "idle" /\ \E i \in 1..Len(r.files) : ~safe_filename(r.files[i]))
                  => (r.pc = "done" /\ r.status = 400 /\ r.calls = 0)

\* C20: the step in which an announce is throttled (now - LAST_PLAYED < delay)
\* leaves LAST_PLAYED, the launches and config.json as they are and calls no
\* decoder; no step of an announce writes config.json; LAST_PLAYED changes
\* only in the store of an announce that launched, and becomes the now that
\* announce sampled for its throttle check.
C20_ThrottledNoEffect ==
    [][/\ \A t \in Threads :
            (thr[t].pc = "check" /\ thr'[t].pc = "done") =>
                /\ thr[t].now - LAST_PLAYED < thr[t].cfg.delay
                /\ LAST_PLAYED' = LAST_PLAYED
                /\ launches' = launches
                /\ playerConfig' = playerConfig
                /\ thr'[t].calls = 0 /\ ~thr'[t].launched /\ ~thr'[t].stored
       /\ thr' # thr => playerConfig' = playerConfig
       /\ LAST_PLAYED' # LAST_PLAYED =>
            \E t \in Threads :
                /\ thr[t].pc = "store" /\ thr[t].launched /\ thr'[t].pc = "done"
                /\ thr[t].gate >= thr[t].cfg.delay
                /\ LAST_PLAYED' = thr[t].now]_vars

\* C20 witness: after a launch stored its time and a PATCH wrote config.json,
\* a later request was throttled.
C20_Witness ==
    \E t \in Threads :
        /\ thr[t].pc = "done" /\ thr[t].status = 200 /\ thr[t].calls = 0
        /\ AllExist(thr[t].files)
        /\ thr[t].now - LAST_PLAYED < thr[t].cfg.delay
        /\ LAST_PLAYED > 0 /\ launches # <<>>
        /\ playerConfig.kind = "object"

\* ------------------------------------------------------------------------
\* Further properties of the key-event loop
\* ------------------------------------------------------------------------

\* C21: the key-event loop is sequential.  While send_trigger's POST is in
\* flight no step reads an event, selects, or changes the debounce state, and
\* the only way on is the return of that POST; an event is read and its
\* debounce decision taken only when send_trigger is not running and the
\* POST of the latest forwarded trigger has returned, so at most one trigger
\* call is outstanding.
C21_SequentialLoop ==
    [][/\ lpc = "post" =>
            /\ ready' = ready /\ last' = last /\ triggers' = triggers
            /\ \A d \in Devices : Len(devq'[d]) >= Len(devq[d])
            /\ lastEvent'.T = lastEvent.T
            /\ lastEvent'.forwarded = lastEvent.forwarded
            /\ lpc' \in {"post", "drain"}
            /\ lpc' = "drain" => lastEvent'.posts = lastEvent.posts + 1
       /\ ((\E d \in Devices : Len(devq'[d]) < Len(devq[d])) \/ last' # last) =>
            /\ lpc = "drain"
            /\ lastEvent.forwarded => lastEvent.posts = 1]_vars

\* C21 witness: a POST is in flight, time has passed since its trigger, and
\* an event is waiting unread on a device.
C21_Witness ==
    /\ lpc = "post" /\ lastEvent.forwarded /\ lastEvent.posts = 0
    /\ mono > lastEvent.T
    /\ \E d \in Devices : devq[d] # <<>>

\* The lines send_trigger logs for a POST that failed.
FailedLines == {"Trigger failed: HTTP", "Trigger failed"}

\* C26: last is set to the trigger's time before send_trigger is called and
\* the POST's outcome does not touch it.  While the POST is in flight last is
\* the trigger's time; the return of the POST, whatever its outcome, leaves
\* last and the trigger history as they are and puts the loop back to
\* draining, with one POST made; after a failed POST last still is that
\* trigger's time, and a key-down forwarded after a failed trigger came at
\* least one debounce window after it.
C26_DebounceKeptOnFailure ==
    /\ [](lpc = "post" => (lastEvent.forwarded /\ last = lastEvent.T))
    /\ []((lastEvent.forwarded /\ lpc # "post" /\ triggerLog \in FailedLines)
            => (last = lastEvent.T /\ lastEvent.posts = 1))
    /\ []((lpc = "post" /\ Len(triggers) = 2 /\ triggerLog \in FailedLines)
            => ~Debounced(triggers[2], triggers[1]))
    /\ [][(lpc = "post" /\ lpc' # "post") =>
            /\ last' = last /\ triggers' = triggers
            /\ lpc' = "drain" /\ lastEvent'.posts = 1]_vars

\* C26 witness: after a trigger whose POST failed, a key-down inside the
\* debounce window of that trigger was dropped and the loop goes on.
C26_Witness ==
    /\ triggerLog \in FailedLines
    /\ lastEvent.seen /\ ~lastEvent.forwarded
    /\ triggers # <<>> /\ lastEvent.prev = triggers[Len(triggers)]
    /\ last = lastEvent.prev
    /\ lastEvent.T > lastEvent.prev
    /\ lpc \in {"select", "drain"}

\* ------------------------------------------------------------------------
\* Further properties of startup reconciliation
\* ------------------------------------------------------------------------

\* A run of run_startup is under way or has returned.
InRun(r) == r.pc \in {"discover", "fetch", "default", "done"}

\* The first file-listing fetch of the run was made and failed.
FirstFetchFailed(r) == (r.fetches = 1 /\ r.files = None) \/ r.fetches = 2

\* C24: in a run of run_startup the retry (discovery after a fetch) is
\* entered exactly when a server was configured at the start of the run and
\* the first fetch failed; a run that started without a server makes at most
\* one discovery and one fetch, and when that fetch fails the run ends with
\* available_audio_files and audio_files_to_send as they were; a non-empty
\* audio_files_to_send is never changed by a run.
C24_RetryGating ==
    InRun(st) =>
        LET before == sender_load_config(st.before)
        IN  /\ st.retry <=> (ServerSet(before) /\ FirstFetchFailed(st))
            /\ ~ServerSet(before) => (st.discoveries = 1 /\ st.fetches <= 1)
            /\ (~ServerSet(before) /\ st.fetches = 1 /\ st.files = None) =>
                  /\ st.pc = "done"
                  /\ senderConfig.available_audio_files = before.available_audio_files
                  /\ senderConfig.audio_files_to_send = before.audio_files_to_send
            /\ ToSend(before) # <<>> =>
                  senderConfig.audio_files_to_send = before.audio_files_to_send

\* C24 witness: a run that began with a configured server whose fetch
\* failed discovered another player, fetched its list and returned.
C24_Witness ==
    /\ st.pc = "done" /\ st.retry
    /\ ServerSet(st.before) /\ senderConfig.server # st.before.server
    /\ st.fetches = 2 /\ st.files # None /\ st.files # <<>>
    /\ ToSend(st.before) # <<>>

\* ------------------------------------------------------------------------
\* A decoder that cannot be started
\* ------------------------------------------------------------------------

\* The request of thread t ended because Popen raised.
LaunchFailed(t) ==
    thr[t].pc = "done" /\ thr[t].status = 500 /\ thr[t].calls = 1

\* C25: when Popen raises, the announce request is answered 500, nothing is
\* recorded as launched or stored, LAST_PLAYED still is the value the
\* throttle check of that request read (its now minus the gap it computed),
\* and the player accepts the next announce request.
C25_FailedLaunch ==
    \A t \in {1} :
        LaunchFailed(t) =>
            /\ ~thr[t].launched /\ ~thr[t].stored
            /\ thr[t].gate >= thr[t].cfg.delay
            /\ LAST_PLAYED = thr[t].now - thr[t].gate
            /\ ENABLED (\E files \in RequestLists : announce(t, files))

\* C25 witness: after an earlier launch, a request that was not throttled
\* met a decoder that could not be started.
C25_Witness ==
    /\ LaunchFailed(1)
    /\ LAST_PLAYED > 0 /\ launches # <<>>
    /\ thr[1].now > LAST_PLAYED

\* ------------------------------------------------------------------------
\* Properties of the linked chain
\* ------------------------------------------------------------------------

\* send_trigger has returned for the latest forwarded trigger and logged it
\* as failed.
ForwardFailed ==
    lastEvent.forwarded /\ lastEvent.posts = 1 /\ triggerLog \in FailedLines

\* The announce call of the latest forwarded trigger has been issued.
AnnounceCalled(s) == s.trigger = lastEvent.T /\ s.calls = 1

\* The decoder has been launched for the latest forwarded trigger.
DecoderLaunched(r) == r.trigger = lastEvent.T /\ r.launched

\* C22: a trigger that send_trigger recorded as failed is over: no later
\* step issues the announce call of that trigger, and no later step launches
\* the decoder for it.
C22_ForwardFailedTerminal ==
    [][ForwardFailed =>
          /\ AnnounceCalled(snd') => AnnounceCalled(snd)
          /\ DecoderLaunched(thr'[1]) => DecoderLaunched(thr[1])]_vars

\* C23: a forwarded key-down has at most one terminal outcome (a trigger
\* recorded as failed is not also answered by a decoder launch, and a launch
\* is not also a throttled or refused request), and the loop is never stuck
\* in the trigger call: its return is always possible.
C23_OneOutcome ==
    /\ ~(ForwardFailed /\ DecoderLaunched(thr[1]))
    /\ thr[1].launched => (thr[1].calls = 1 /\ thr[1].status \in {0, 200})
    /\ lpc = "post" => ENABLED (\E outcome \in TriggerOutcomes : relay_send_trigger(outcome))

====
